---- MODULE Spec2Model ----
(***************************************************************************)
(* observable::collection<ValueType, ContainerType>                         *)
(* (observable/include/observable/collection.hpp).                          *)
(*                                                                         *)
(* The collection is a value<container> plus one extra subject,             *)
(* change_observers_, for element-level events.  insert_impl, emplace_impl  *)
(* and remove_impl (both compiled variants) are modelled from the header;   *)
(* value<T> (set, updater, void_observers_, value_observers_) and subject   *)
(* (subscribe, notify, subscription handles) live in headers that are not   *)
(* part of the sources at hand and are modelled from the specification.     *)
(*                                                                         *)
(* Spec takes every operation as one step.  Its observers are the          *)
(* recording callbacks of tests/src/collection.cpp: an invocation appends   *)
(* a record to the call list of the running operation.  SpecDispatch and    *)
(* SpecReentrant take insert and remove one observer at a time: there the   *)
(* observers change subscriptions, or call insert and remove, while they    *)
(* are being notified.                                                      *)
(***************************************************************************)
EXTENDS Integers, Sequences, FiniteSets

\* Elements are 1..MaxElem; at most MaxObs observers are ever subscribed; where
\* observers call back into the collection, a call made from outside the
\* observers changes the container together with at most MaxCalls - 1 calls
\* made from inside its notifications.
MaxElem == 2
MaxObs == 2
MaxCalls == 2

Elems == 1..MaxElem
NoElem == 0
Containers == SUBSET Elems

VARIABLES
    value_,             \* value<container>::value_: the stored container
    updater_,           \* value<container>::updater_ is set (read-only value)
    change_observers_,  \* collection::change_observers_, in subscription order
    void_observers_,    \* value::void_observers_, in subscription order
    value_observers_,   \* value::value_observers_, in subscription order
    subs,               \* every subscription made so far: its API and handle state
    extract_build,      \* which remove_impl the build compiled (__cplusplus > 201703L)
    last,               \* the most recent API call: arguments, result, observer calls
    prev,               \* the call before it, kept for the pairs named in Tracked
    stack,              \* the calls of insert and remove in progress, innermost last
    events,             \* what the outermost call in progress and those inside it did
    undefined           \* the program ran into undefined behaviour

vars == <<value_, updater_, change_observers_, void_observers_, value_observers_,
          subs, extract_build, last, prev, stack, events, undefined>>

\* The part of the state that only SpecDispatch and SpecReentrant change.
nested == <<stack, events, undefined>>

----------------------------------------------------------------------------
\* Observer invocations.  seen is what get() returns inside the callback.

ChangeCall(o, x, ins, seen) ==
    [stream |-> "change", obs |-> o, elem |-> x, inserted |-> ins,
     cont |-> {}, seen |-> seen]

VoidCall(o, seen) ==
    [stream |-> "void", obs |-> o, elem |-> NoElem, inserted |-> FALSE,
     cont |-> {}, seen |-> seen]

ValueCall(o, c) ==
    [stream |-> "value", obs |-> o, elem |-> NoElem, inserted |-> FALSE,
     cont |-> c, seen |-> c]

\* subject<void(ValueType const &, bool)>::notify(elem, inserted)
notify_change(observers, x, ins, seen) ==
    [i \in 1..Len(observers) |-> ChangeCall(observers[i], x, ins, seen)]

\* subject<void()>::notify()
notify_void(observers, seen) ==
    [i \in 1..Len(observers) |-> VoidCall(observers[i], seen)]

\* subject<void(container const &)>::notify(value_)
notify_value(observers, c) ==
    [i \in 1..Len(observers) |-> ValueCall(observers[i], c)]

----------------------------------------------------------------------------
\* Container primitives of a unique-key container (std::unordered_set, std::set).

\* value_.insert(new_value) / value_.emplace(new_value): {iterator, inserted}
container_insert(c, x) ==
    [cont |-> c \cup {x}, it |-> x, inserted |-> x \notin c]

\* value_.erase(found_it)
container_erase(c, x) == c \ {x}

\* value_.extract(value): the node handle is empty when value is not found
container_extract(c, x) ==
    [cont |-> c \ {x}, found |-> x \in c, node |-> x]

Outcome(c, ret, threw, calls) ==
    [value |-> c, ret |-> ret, threw |-> threw, calls |-> calls]

----------------------------------------------------------------------------
\* Faulty variants of insert_impl.  The first notifies without looking at
\* `inserted`; the second returns whether the iterator is valid, which it always
\* is; the third notifies the whole-value observers before the element-level ones.

insert_impl_unguarded(c, x) ==
    LET r == container_insert(c, x)
    IN  Outcome(r.cont, r.inserted, FALSE,
                notify_change(change_observers_, r.it, TRUE, r.cont)
                \o notify_void(void_observers_, r.cont)
                \o notify_value(value_observers_, r.cont))

insert_impl_returns_found(c, x) ==
    LET r == container_insert(c, x)
    IN  IF r.inserted
        THEN Outcome(r.cont, TRUE, FALSE,
                     notify_change(change_observers_, r.it, TRUE, r.cont)
                     \o notify_void(void_observers_, r.cont)
                     \o notify_value(value_observers_, r.cont))
        ELSE Outcome(r.cont, TRUE, FALSE, <<>>)

insert_impl_value_first(c, x) ==
    LET r == container_insert(c, x)
    IN  IF r.inserted
        THEN Outcome(r.cont, TRUE, FALSE,
                     notify_void(void_observers_, r.cont)
                     \o notify_value(value_observers_, r.cont)
                     \o notify_change(change_observers_, r.it, TRUE, r.cont))
        ELSE Outcome(r.cont, FALSE, FALSE, <<>>)

\* A fourth faulty variant: the whole-value observers are not notified.

insert_impl_silent(c, x) ==
    LET r == container_insert(c, x)
    IN  IF r.inserted
        THEN Outcome(r.cont, TRUE, FALSE,
                     notify_change(change_observers_, r.it, TRUE, r.cont))
        ELSE Outcome(r.cont, FALSE, FALSE, <<>>)

\* collection::insert_impl

insert_impl(c, x) ==
    LET r == container_insert(c, x)
    IN  IF r.inserted
        THEN Outcome(r.cont, TRUE, FALSE,
                     notify_change(change_observers_, r.it, TRUE, r.cont)
                     \o notify_void(void_observers_, r.cont)
                     \o notify_value(value_observers_, r.cont))
        ELSE Outcome(r.cont, FALSE, FALSE, <<>>)

\* collection::emplace_impl

emplace_impl(c, x) ==
    LET r == container_insert(c, x)
    IN  IF r.inserted
        THEN Outcome(r.cont, TRUE, FALSE,
                     notify_change(change_observers_, r.it, TRUE, r.cont)
                     \o notify_void(void_observers_, r.cont)
                     \o notify_value(value_observers_, r.cont))
        ELSE Outcome(r.cont, FALSE, FALSE, <<>>)

\* Faulty variants of the extract-based remove_impl.  The first notifies without
\* testing the node handle; the second passes `true` as the inserted flag.

remove_impl_extract_unguarded(c, x) ==
    LET nh == container_extract(c, x)
    IN  Outcome(nh.cont, nh.found, FALSE,
                notify_change(change_observers_, nh.node, FALSE, nh.cont)
                \o notify_void(void_observers_, nh.cont)
                \o notify_value(value_observers_, nh.cont))

remove_impl_extract_flag(c, x) ==
    LET nh == container_extract(c, x)
    IN  IF nh.found
        THEN Outcome(nh.cont, TRUE, FALSE,
                     notify_change(change_observers_, nh.node, TRUE, nh.cont)
                     \o notify_void(void_observers_, nh.cont)
                     \o notify_value(value_observers_, nh.cont))
        ELSE Outcome(nh.cont, FALSE, FALSE, <<>>)

\* collection::remove_impl, #if __cplusplus > 201703L: extract, then notify

remove_impl_extract(c, x) ==
    LET nh == container_extract(c, x)
    IN  IF nh.found
        THEN Outcome(nh.cont, TRUE, FALSE,
                     notify_change(change_observers_, nh.node, FALSE, nh.cont)
                     \o notify_void(void_observers_, nh.cont)
                     \o notify_value(value_observers_, nh.cont))
        ELSE Outcome(nh.cont, FALSE, FALSE, <<>>)

\* Faulty variants of the find/erase-based remove_impl.  The first never sets
\* `removed`; the second forgets the erase; the third notifies the whole-value
\* observers before the erase.

remove_impl_erase_unset(c, x) ==
    IF x \in c
    THEN LET erased == container_erase(c, x)
         IN  Outcome(erased, FALSE, FALSE,
                     notify_change(change_observers_, x, FALSE, c)
                     \o notify_void(void_observers_, erased)
                     \o notify_value(value_observers_, erased))
    ELSE Outcome(c, FALSE, FALSE, <<>>)

remove_impl_erase_forgotten(c, x) ==
    IF x \in c
    THEN Outcome(c, TRUE, FALSE,
                 notify_change(change_observers_, x, FALSE, c)
                 \o notify_void(void_observers_, c)
                 \o notify_value(value_observers_, c))
    ELSE Outcome(c, FALSE, FALSE, <<>>)

remove_impl_erase_late(c, x) ==
    IF x \in c
    THEN LET erased == container_erase(c, x)
         IN  Outcome(erased, TRUE, FALSE,
                     notify_change(change_observers_, x, FALSE, c)
                     \o notify_void(void_observers_, c)
                     \o notify_value(value_observers_, c))
    ELSE Outcome(c, FALSE, FALSE, <<>>)

\* collection::remove_impl, #else: find, notify the element, erase, notify the value

remove_impl_erase(c, x) ==
    IF x \in c
    THEN LET erased == container_erase(c, x)
         IN  Outcome(erased, TRUE, FALSE,
                     notify_change(change_observers_, x, FALSE, c)
                     \o notify_void(void_observers_, erased)
                     \o notify_value(value_observers_, erased))
    ELSE Outcome(c, FALSE, FALSE, <<>>)

remove_impl(c, x) ==
    IF extract_build THEN remove_impl_extract(c, x) ELSE remove_impl_erase(c, x)

----------------------------------------------------------------------------
\* value<container>: the commit path and set

\* Faulty variant of set_impl: no comparison with the stored value.
set_impl_uncompared(c, new) ==
    Outcome(new, TRUE, FALSE,
            notify_void(void_observers_, new)
            \o notify_value(value_observers_, new))

set_impl(c, new) ==
    IF new = c
    THEN Outcome(c, FALSE, FALSE, <<>>)
    ELSE Outcome(new, TRUE, FALSE,
                 notify_void(void_observers_, new)
                 \o notify_value(value_observers_, new))

set(c, new) ==
    IF updater_
    THEN Outcome(c, FALSE, TRUE, <<>>)
    ELSE set_impl(c, new)

----------------------------------------------------------------------------
\* Subscriptions.  An observer's id is its index in subs.

Subjects(ch, vo, va) == [change |-> ch, void |-> vo, value |-> va]

\* Faulty variant of subscribe_changes_impl: the observer lands on the no-argument
\* whole-value subject.
subscribe_changes_impl_void(o) ==
    Subjects(change_observers_, Append(void_observers_, o), value_observers_)

\* collection::subscribe_changes_impl
subscribe_changes_impl(o) ==
    Subjects(Append(change_observers_, o), void_observers_, value_observers_)

\* value::subscribe, routed by the callback's argument shape
subscribe(o, shape) ==
    IF shape = "void"
    THEN Subjects(change_observers_, Append(void_observers_, o), value_observers_)
    ELSE Subjects(change_observers_, void_observers_, Append(value_observers_, o))

Without(observers, o) == SelectSeq(observers, LAMBDA p : p # o)

\* Faulty variant of unsubscribe_from: the registration is left in place.
unsubscribe_from_kept(s, o) == s

\* subject::unsubscribe, applied to the subject that holds observer o
unsubscribe_from(s, o) ==
    Subjects(Without(s.change, o), Without(s.void, o), Without(s.value, o))

\* subject::unsubscribe, reached from the destructor of an attached handle
unsubscribe(o) ==
    unsubscribe_from(Subjects(change_observers_, void_observers_, value_observers_), o)

----------------------------------------------------------------------------
\* Records of API calls

CallRecord(op, x, new, out) ==
    [op |-> op, arg |-> x, new |-> new, pre |-> value_, upd |-> updater_,
     registered |-> Subjects(change_observers_, void_observers_, value_observers_),
     ret |-> out.ret, threw |-> out.threw, calls |-> out.calls]

NoCall ==
    [op |-> "none", arg |-> NoElem, new |-> {}, pre |-> {}, upd |-> FALSE,
     registered |-> Subjects(<<>>, <<>>, <<>>),
     ret |-> FALSE, threw |-> FALSE, calls |-> <<>>]

Summary(r) ==
    [op |-> r.op, arg |-> r.arg, new |-> r.new, pre |-> r.pre,
     ret |-> r.ret, threw |-> r.threw]

\* The pairs of consecutive calls whose first call is remembered in prev:
\* insert(x) then remove(x), set(v) then set(v), and a subscribe whose handle
\* was dropped on the spot then set.
Tracked(op, x, new) ==
    \/ last.op = "insert" /\ op = "remove" /\ x = last.arg
    \/ last.op = "set" /\ op = "set" /\ new = last.new
    \/ last.op = "subscribe_discarded" /\ op = "set"

Before(op, x, new) ==
    IF Tracked(op, x, new) THEN Summary(last) ELSE Summary(NoCall)

\* A value is built with or without an updater; a collection is a value.
UpdaterConfigured == BOOLEAN

\* The build compiles one of the two remove_impl: extract when
\* __cplusplus > 201703L, find/erase otherwise.
BuildVariants == BOOLEAN

Init ==
    /\ value_ \in Containers
    /\ updater_ \in UpdaterConfigured
    /\ extract_build \in BuildVariants
    /\ change_observers_ = <<>>
    /\ void_observers_ = <<>>
    /\ value_observers_ = <<>>
    /\ subs = <<>>
    /\ last = NoCall
    /\ prev = Summary(NoCall)
    /\ stack = <<>>
    /\ events = <<>>
    /\ undefined = FALSE

\* A mutating call: the container and the call record change, the subjects do not.
Mutate(op, x, new, out) ==
    /\ value_' = out.value
    /\ prev' = Before(op, x, new)
    /\ last' = CallRecord(op, x, new, out)
    /\ stack = <<>>
    /\ UNCHANGED <<updater_, change_observers_, void_observers_, value_observers_,
                   subs, extract_build, nested>>

\* A call of a public member: whether a program containing it builds, and what
\* the call does when it runs.
Call(builds, out) == [builds |-> builds, out |-> out]

\* collection::insert: return insert_impl(std::move(new_value))
insert(c, x) == Call(TRUE, insert_impl(c, x))

\* collection::emplace: return emplace_impl(std::forward(new_value)).  The call of
\* std::forward names no template argument and its parameter is a non-deduced
\* context, so the member does not instantiate: a program that calls emplace
\* does not build, and no call of emplace ever runs.
emplace(c, x) == Call(FALSE, Outcome(c, FALSE, FALSE, <<>>))

\* collection::insert
Insert(x) == Mutate("insert", x, {}, insert(value_, x).out)

\* collection::remove
Remove(x) == Mutate("remove", x, {}, remove_impl(value_, x))

\* value::set
Set(new) == Mutate("set", NoElem, new, set(value_, new))

\* the owner re-runs the updater, which commits what it produced
UpdaterRefresh(new) ==
    /\ updater_
    /\ Mutate("refresh", NoElem, new, set_impl(value_, new))

Register(op, api, s, calls) ==
    /\ Len(subs) < MaxObs
    /\ subs' = Append(subs, [api |-> api, handle |-> "held"])
    /\ change_observers_' = s.change
    /\ void_observers_' = s.void
    /\ value_observers_' = s.value
    /\ prev' = Before(op, NoElem, {})
    /\ last' = CallRecord(op, NoElem, {}, Outcome(value_, FALSE, FALSE, calls))
    /\ stack = <<>>
    /\ UNCHANGED <<value_, updater_, extract_build, nested>>

\* Faulty variant of subscribe_changes: the observer is called on registration.
SubscribeChanges_and_call ==
    Register("subscribe_changes", "change", subscribe_changes_impl(Len(subs) + 1),
             <<ChangeCall(Len(subs) + 1, NoElem, FALSE, value_)>>)

\* collection::subscribe_changes
SubscribeChanges ==
    Register("subscribe_changes", "change", subscribe_changes_impl(Len(subs) + 1), <<>>)

\* value::subscribe
Subscribe(shape) ==
    Register("subscribe", shape, subscribe(Len(subs) + 1, shape), <<>>)

\* value::subscribe_and_call
SubscribeAndCall(shape) ==
    Register("subscribe_and_call", shape, subscribe(Len(subs) + 1, shape),
             IF shape = "void"
             THEN <<VoidCall(Len(subs) + 1, value_)>>
             ELSE <<ValueCall(Len(subs) + 1, value_)>>)

\* What is left of a subscription whose attached handle was destroyed.
Destroyed == [api |-> "none", handle |-> "destroyed"]

Handle(op, o, state, s) ==
    /\ subs[o].handle = "held"
    /\ subs' = [subs EXCEPT ![o] = state]
    /\ change_observers_' = s.change
    /\ void_observers_' = s.void
    /\ value_observers_' = s.value
    /\ prev' = Before(op, NoElem, {})
    /\ last' = CallRecord(op, NoElem, {}, Outcome(value_, FALSE, FALSE, <<>>))
    /\ stack = <<>>
    /\ UNCHANGED <<value_, updater_, extract_build, nested>>

\* value::subscribe as a statement of its own, `col.subscribe(f);`: the handle
\* is a temporary, destroyed while attached at the end of the statement.
SubscribeDiscarded(shape) ==
    LET o == Len(subs) + 1
        s == unsubscribe_from(subscribe(o, shape), o)
    IN  /\ Len(subs) < MaxObs
        /\ subs' = Append(subs, Destroyed)
        /\ change_observers_' = s.change
        /\ void_observers_' = s.void
        /\ value_observers_' = s.value
        /\ prev' = Before("subscribe_discarded", o, {})
        /\ last' = CallRecord("subscribe_discarded", o, {},
                              Outcome(value_, FALSE, FALSE, <<>>))
        /\ stack = <<>>
        /\ UNCHANGED <<value_, updater_, extract_build, nested>>

\* subscription::release: the handle lets go, the observer stays subscribed; what
\* becomes of the handle afterwards no longer matters
Release(o) ==
    Handle("release", o, [subs[o] EXCEPT !.handle = "released"],
           Subjects(change_observers_, void_observers_, value_observers_))

\* ~subscription of an attached handle: the observer is unsubscribed
Destroy(o) == Handle("destroy", o, Destroyed, unsubscribe(o))

Next ==
    \/ \E x \in Elems : Insert(x)
    \/ \E x \in Elems : Remove(x)
    \/ \E new \in Containers : Set(new)
    \/ \E new \in Containers : UpdaterRefresh(new)
    \/ SubscribeChanges
    \/ \E shape \in {"void", "value"} : Subscribe(shape)
    \/ \E shape \in {"void", "value"} : SubscribeAndCall(shape)
    \/ \E shape \in {"void", "value"} : SubscribeDiscarded(shape)
    \/ \E o \in 1..Len(subs) : Release(o)
    \/ \E o \in 1..Len(subs) : Destroy(o)

Spec == Init /\ [][Next]_vars

----------------------------------------------------------------------------
\* Reading the record of the last call

Range(seq) == {seq[i] : i \in DOMAIN seq}

\* How many times the last call invoked observer o on a stream.
Invocations(o, stream) ==
    Cardinality({i \in DOMAIN last.calls :
                    last.calls[i].obs = o /\ last.calls[i].stream = stream})

\* Some observer is subscribed to the element-level stream and some to a
\* whole-value stream.
Observed ==
    /\ Len(change_observers_) > 0
    /\ Len(void_observers_) + Len(value_observers_) > 0

----------------------------------------------------------------------------
\* C1: insert(x) on a collection that already contains x returns false, leaves
\* the container as it was and invokes no observer on any stream.
C1_DuplicateInsertIsNoOp ==
    (last.op = "insert" /\ last.arg \in last.pre)
        => /\ ~last.ret
           /\ ~last.threw
           /\ value_ = last.pre
           /\ last.calls = <<>>

C1_Witness ==
    /\ last.op = "insert"
    /\ last.arg \in last.pre
    /\ Observed

\* C2: remove(x) on a collection that does not contain x returns false, leaves
\* the container as it was and invokes no observer on any stream.
C2_MissingRemoveIsNoOp ==
    (last.op = "remove" /\ last.arg \notin last.pre)
        => /\ ~last.ret
           /\ ~last.threw
           /\ value_ = last.pre
           /\ last.calls = <<>>

C2_Witness ==
    /\ last.op = "remove"
    /\ last.arg \notin last.pre
    /\ last.pre # {}
    /\ Observed

\* C3: insert(x) on container c returns true exactly when x is not in c, and
\* afterwards get() is c with x added.
C3_InsertResult ==
    last.op = "insert"
        => /\ last.ret <=> last.arg \notin last.pre
           /\ value_ = last.pre \cup {last.arg}

C3_Witness ==
    /\ last.op = "insert"
    /\ last.ret
    /\ last.pre # {}

\* C4: remove(x) on container c returns true exactly when x is in c, and
\* afterwards get() is c with x removed and every other element kept.
C4_RemoveResult ==
    last.op = "remove"
        => /\ last.ret <=> last.arg \in last.pre
           /\ value_ = last.pre \ {last.arg}

C4_Witness ==
    /\ last.op = "remove"
    /\ last.ret
    /\ value_ # {}

\* C5: a successful insert(x) invokes every observer subscribed to the
\* element-level stream exactly once, with (x, true); a successful remove(x)
\* invokes each exactly once, with (x, false).
C5_ElementEvents ==
    (last.op \in {"insert", "remove"} /\ last.ret)
        => /\ \A o \in Range(last.registered.change) : Invocations(o, "change") = 1
           /\ \A i \in DOMAIN last.calls :
                 last.calls[i].stream = "change"
                    => /\ last.calls[i].obs \in Range(last.registered.change)
                       /\ last.calls[i].elem = last.arg
                       /\ last.calls[i].inserted = (last.op = "insert")

C5_Witness ==
    /\ last.op = "remove"
    /\ last.ret
    /\ prev.op = "insert"
    /\ prev.ret
    /\ Len(change_observers_) = 2

\* C6: when insert, emplace or remove changes membership, every whole-value
\* observer (no-argument and new-value) is invoked exactly once, and each such
\* invocation comes after every element-level invocation of that call.
C6_WholeValueAfterElement ==
    (last.op \in {"insert", "emplace", "remove"} /\ value_ # last.pre)
        => /\ \A o \in Range(last.registered.void) : Invocations(o, "void") = 1
           /\ \A o \in Range(last.registered.value) : Invocations(o, "value") = 1
           /\ \A i, j \in DOMAIN last.calls :
                 (/\ last.calls[i].stream = "change"
                  /\ last.calls[j].stream \in {"void", "value"}) => i < j

C6_Witness ==
    /\ last.op \in {"insert", "emplace", "remove"}
    /\ value_ # last.pre
    /\ Observed
    /\ Len(last.calls) = 2

\* C7: insert, emplace, remove and set on a collection that has an updater fail
\* with readonly_value, leave the container as it was and invoke no observer.
C7_ReadOnlyRejectsMutation ==
    (last.op \in {"insert", "emplace", "remove", "set"} /\ last.upd)
        => /\ last.threw
           /\ value_ = last.pre
           /\ last.calls = <<>>

\* C8 as stated: for every container c and element x, insert(x) directly followed
\* by remove(x) returns (true, true) and leaves get() equal to c.
C8_RoundTripAnyElement ==
    (prev.op = "insert" /\ last.op = "remove" /\ last.arg = prev.arg)
        => /\ prev.ret
           /\ last.ret
           /\ value_ = prev.pre

\* C8, amended: for every container c and element x not in c, insert(x) directly
\* followed by remove(x) returns (true, true) and leaves get() equal to c.
C8_RoundTripNewElement ==
    (/\ prev.op = "insert"
     /\ last.op = "remove"
     /\ last.arg = prev.arg
     /\ prev.arg \notin prev.pre)
        => /\ prev.ret
           /\ last.ret
           /\ value_ = prev.pre

C8_Witness ==
    /\ prev.op = "insert"
    /\ last.op = "remove"
    /\ last.arg = prev.arg
    /\ prev.arg \notin prev.pre
    /\ prev.pre # {}

\* C9: the container handed to a new-value observer by a successful insert(x) or
\* remove(x) is the container after the change: it holds x after insert(x), does
\* not hold x after remove(x), and is what get() returns when the call is over.
C9_ObserverSeesNewContainer ==
    (last.op \in {"insert", "remove"} /\ last.ret)
        => \A i \in DOMAIN last.calls :
              last.calls[i].stream = "value"
                 => /\ last.calls[i].cont = value_
                    /\ last.op = "insert" => last.arg \in last.calls[i].cont
                    /\ last.op = "remove" => last.arg \notin last.calls[i].cont

C9_Witness ==
    /\ last.op = "remove"
    /\ last.ret
    /\ value_ # {}
    /\ \E i \in DOMAIN last.calls : last.calls[i].stream = "value"

\* C10: set never invokes an element-level observer, also when it changes
\* membership; an observer subscribed with subscribe_changes is invoked by
\* insert, emplace and remove only.
C10_SetSkipsElementStream ==
    \A i \in DOMAIN last.calls :
        (\/ last.calls[i].stream = "change"
         \/ subs[last.calls[i].obs].api = "change")
            => last.op \in {"insert", "emplace", "remove"}

C10_Witness ==
    /\ last.op = "set"
    /\ value_ # last.pre
    /\ last.calls # <<>>
    /\ Len(change_observers_) > 0

\* C11 as stated: set(v); set(v) triggers exactly one notification cycle in
\* total, and the second call invokes no observer and leaves the value as it was.
\* A call ran a notification cycle when it committed a new value.
Cycles(r) == IF r.ret THEN 1 ELSE 0

C11_SetTwiceOneCycle ==
    (prev.op = "set" /\ last.op = "set" /\ last.new = prev.new)
        => /\ Cycles(prev) + Cycles(last) = 1
           /\ last.calls = <<>>
           /\ value_ = last.pre

\* C11, amended: in set(v); set(v) the second call invokes no observer and
\* leaves the value as it was; the first call runs a notification cycle exactly
\* when v differs from the value before it and the value has no updater, so the
\* pair runs one cycle then and none otherwise.
C11_SetTwiceSecondIsNoOp ==
    (prev.op = "set" /\ last.op = "set" /\ last.new = prev.new)
        => /\ Cycles(last) = 0
           /\ last.calls = <<>>
           /\ value_ = last.pre
           /\ Cycles(prev) = 1 <=> (prev.new # prev.pre /\ ~prev.threw)

C11_Witness ==
    /\ prev.op = "set"
    /\ last.op = "set"
    /\ last.new = prev.new
    /\ Cycles(prev) = 1
    /\ Len(void_observers_) + Len(value_observers_) > 0

\* C12: subscribe_and_call invokes the new observer exactly once before it
\* returns, with the current container (with nothing for a no-argument observer)
\* and without changing the container; subscribe and subscribe_changes invoke
\* nothing on registration.
C12_SubscribeAndCallOnce ==
    /\ last.op = "subscribe_and_call"
          => /\ Len(last.calls) = 1
             /\ last.calls[1].obs = Len(subs)
             /\ last.calls[1].stream = subs[Len(subs)].api
             /\ last.calls[1].stream = "value" => last.calls[1].cont = value_
             /\ value_ = last.pre
    /\ last.op \in {"subscribe", "subscribe_changes", "subscribe_discarded"}
          => last.calls = <<>>

C12_Witness ==
    /\ last.op = "subscribe_and_call"
    /\ last.calls[1].stream = "value"
    /\ value_ # {}

\* C13: an observer passed to subscribe whose returned handle is dropped on the
\* spot, neither released nor stored, is invoked exactly once by the next set
\* that changes the container.
C13_DiscardedHandleStillNotified ==
    (prev.op = "subscribe_discarded" /\ last.op = "set" /\ value_ # last.pre)
        => Cardinality({i \in DOMAIN last.calls : last.calls[i].obs = prev.arg}) = 1

C16_EmplaceEqualsInsert ==
    \A x \in Elems : emplace(value_, x) = insert(value_, x)

\* C17 as stated: the stored container changes only on the commit path of set.
C17_OnlyCommitPathWrites ==
    (last.op # "none" /\ value_ # last.pre) => last.op \in {"set", "refresh"}

\* C17, amended: the stored container changes only on the commit path of set or
\* in insert_impl, emplace_impl and remove_impl, which write it in place; either
\* way a change is followed by one call of every whole-value observer, and
\* outside subscribe_and_call no observer is called without a change.
C17_WritesAreNotified ==
    /\ (last.op # "none" /\ value_ # last.pre)
          => /\ last.op \in {"set", "refresh", "insert", "emplace", "remove"}
             /\ \A o \in Range(last.registered.void) : Invocations(o, "void") = 1
             /\ \A o \in Range(last.registered.value) : Invocations(o, "value") = 1
    /\ (last.calls # <<>> /\ last.op # "subscribe_and_call")
          => (last.op # "none" /\ value_ # last.pre)

C17_Witness ==
    /\ last.op = "insert"
    /\ value_ # last.pre
    /\ last.upd
    /\ Len(value_observers_) > 0

\* C18 as stated: the extract-based and the find/erase-based remove_impl agree on
\* the return value, the container, the observers invoked, their order, their
\* arguments and on what get() returns inside every notification.
C18_RemoveVariantsEquivalent ==
    \A x \in Elems : remove_impl_extract(value_, x) = remove_impl_erase(value_, x)

\* What get() returns inside the element-level notifications, and the rest.
SeenByElementObservers(out) ==
    {out.calls[i].seen : i \in {j \in DOMAIN out.calls : out.calls[j].stream = "change"}}

ApartFromElementGet(out) ==
    [out EXCEPT !.calls =
        [i \in DOMAIN out.calls |->
            IF out.calls[i].stream = "change"
            THEN [out.calls[i] EXCEPT !.seen = {}]
            ELSE out.calls[i]]]

\* C18, amended: the two remove_impl agree on the return value, the container,
\* the observers invoked, their order, their arguments and on what get() returns
\* inside the whole-value notifications; inside the element-level notification
\* get() no longer holds x in the extract-based build and still holds x in the
\* find/erase-based build.
C18_RemoveVariantsAgreeApartFromGet ==
    \A x \in Elems :
        /\ ApartFromElementGet(remove_impl_extract(value_, x))
              = ApartFromElementGet(remove_impl_erase(value_, x))
        /\ SeenByElementObservers(remove_impl_extract(value_, x)) \subseteq {value_ \ {x}}
        /\ SeenByElementObservers(remove_impl_erase(value_, x)) \subseteq {value_}

C18_Witness ==
    /\ last.op = "remove"
    /\ last.ret
    /\ value_ # {}
    /\ Observed

-----------------------------------------------------------------------------
\* Observers that call back into the collection. A call of insert or remove is
\* taken one observer at a time: each call in progress is a frame of stack, and
\* an observer that is being notified may return, unsubscribe an observer,
\* subscribe a new one, or call insert or remove itself.

\* A frame: the call's number, operation and element, the notify it is in
\* (stage), the observers its notifies found subscribed when they began
\* (snapshot), those the current notify has still to visit (todo), those the
\* call invoked (invoked), the state of the reference `*it` / `*found_it` /
\* `nh.value()` handed to the element-level observers (ref: "alive" in the
\* container, "owned" by the call's node handle, "dangling") and of the
\* iterator found_it kept for the erase (pos: "valid", "invalid", "none" where
\* no iterator is kept).
Frame(id, op, x, stage, observers, ref, pos) ==
    [id |-> id, op |-> op, x |-> x, stage |-> stage, snapshot |-> observers,
     todo |-> observers, invoked |-> <<>>, ref |-> ref, pos |-> pos]

\* Entries of events: a call that changes the container began, its change was
\* applied to the container, an observer was invoked. ok tells whether what the
\* step used was valid: the iterator erased through, the reference handed to
\* the observer, the subscription of the observer invoked.
BeginEvent(id, depth, x) == [kind |-> "begin", id |-> id, depth |-> depth, elem |-> x]

ApplyEvent(id, depth, x, ok) ==
    [kind |-> "apply", id |-> id, depth |-> depth, elem |-> x, ok |-> ok]

CallEvent(id, depth, stream, o, elem, ok) ==
    [kind |-> "call", id |-> id, depth |-> depth, stream |-> stream, obs |-> o,
     elem |-> elem, ok |-> ok]

NumCalls == Cardinality({i \in DOMAIN events : events[i].kind = "begin"})

\* Element x left the container: the references and iterators to it that calls
\* in progress still hold are invalid from here on.
Invalidate(stk, x) ==
    [i \in DOMAIN stk |->
        IF stk[i].x = x /\ stk[i].ref = "alive"
        THEN [stk[i] EXCEPT !.ref = "dangling",
                            !.pos = IF @ = "valid" THEN "invalid" ELSE @]
        ELSE stk[i]]

\* An insertion that makes the unordered_set rehash invalidates every iterator,
\* but no reference.
Rehash(stk) ==
    [i \in DOMAIN stk |->
        IF stk[i].pos = "valid" THEN [stk[i] EXCEPT !.pos = "invalid"] ELSE stk[i]]

\* The observers of the three subjects as they are now.
Now == Subjects(change_observers_, void_observers_, value_observers_)

ObserversIn(s, stage) ==
    CASE stage = "change" -> s.change
      [] stage = "void" -> s.void
      [] OTHER -> s.value

StreamObservers(stage) == ObserversIn(Now, stage)

\* What a step leaves behind: the container, the calls in progress, the events.
Entered(c, stk, evs) == [value |-> c, stack |-> stk, events |-> evs]

\* Faulty variant of notify_order: the whole-value notifications come first.
notify_order_value_first == <<"void", "value", "change">>

\* The three notifies of insert_impl and of remove_impl, in program order:
\* change_observers_, then the no-argument subject, then the one handed value_
notify_order == <<"change", "void", "value">>

\* collection::insert_impl up to its first notify: value_.insert(new_value) and,
\* when it inserted, the dispatch on change_observers_ of (*it, true)
insert_impl_begin(stk, id, x, rehash) ==
    LET r == container_insert(value_, x)
        depth == Len(stk) + 1
    IN  IF r.inserted
        THEN Entered(r.cont,
                     Append(IF rehash THEN Rehash(stk) ELSE stk,
                            Frame(id, "insert", x, notify_order[1],
                                  StreamObservers(notify_order[1]), "alive", "none")),
                     <<BeginEvent(id, depth, x), ApplyEvent(id, depth, x, TRUE)>>)
        ELSE Entered(value_, stk, <<>>)

\* collection::remove_impl, extract variant, up to its first notify:
\* value_.extract(value) and, when the node handle is not empty, the dispatch on
\* change_observers_ of (nh.value(), false)
remove_impl_extract_begin(stk, id, x) ==
    LET nh == container_extract(value_, x)
        depth == Len(stk) + 1
    IN  IF nh.found
        THEN Entered(nh.cont,
                     Append(Invalidate(stk, x),
                            Frame(id, "remove", x, notify_order[1],
                                  StreamObservers(notify_order[1]), "owned", "none")),
                     <<BeginEvent(id, depth, x), ApplyEvent(id, depth, x, TRUE)>>)
        ELSE Entered(value_, stk, <<>>)

\* collection::remove_impl, find/erase variant, up to its first notify:
\* value_.find(value) and, when found, the dispatch on change_observers_ of
\* (*found_it, false) with the element still in the container
remove_impl_erase_begin(stk, id, x) ==
    LET depth == Len(stk) + 1
    IN  IF x \in value_
        THEN Entered(value_,
                     Append(stk, Frame(id, "remove", x, notify_order[1],
                                       StreamObservers(notify_order[1]), "alive",
                                       "valid")),
                     <<BeginEvent(id, depth, x)>>)
        ELSE Entered(value_, stk, <<>>)

remove_impl_begin(stk, id, x) ==
    IF extract_build THEN remove_impl_extract_begin(stk, id, x)
    ELSE remove_impl_erase_begin(stk, id, x)

\* The notify that follows the one on `stage` in insert_impl and remove_impl, s
\* being the observers subscribed. A notify on a subject without observers does
\* nothing and is passed over.
NextStage(s, stage) ==
    LET at == CHOOSE i \in DOMAIN notify_order : notify_order[i] = stage
        later == {i \in DOMAIN notify_order :
                     i > at /\ ObserversIn(s, notify_order[i]) # <<>>}
    IN  IF later = {} THEN "done"
        ELSE notify_order[CHOOSE i \in later : \A j \in later : i <= j]

\* The frame once its call turns to its next notify.
Turned(f, stage, observers) ==
    [f EXCEPT !.stage = stage, !.snapshot = @ \o observers, !.todo = observers]

\* insert_impl / remove_impl between two notifies. Once the notify of the
\* topmost call has visited every observer, the call goes on to its next
\* notify; the find/erase variant of remove_impl first does
\* value_.erase(found_it) after the element-level notify. A call that is left
\* with nothing to notify stays until it returns, one that would erase through
\* an invalidated iterator until it does.
Resumed(c, stk, evs, s) ==
    IF stk = <<>> THEN Entered(c, stk, evs)
    ELSE LET f == stk[Len(stk)]
             erasing == f.stage = "change" /\ f.pos = "valid"
             erased == [Invalidate(stk, f.x) EXCEPT ![Len(stk)] =
                            [f EXCEPT !.pos = "none", !.ref = "dangling"]]
             stk2 == IF erasing THEN erased ELSE stk
             next == NextStage(s, f.stage)
         IN  IF f.todo # <<>> \/ (f.stage = "change" /\ f.pos = "invalid")
             THEN Entered(c, stk, evs)
             ELSE Entered(IF erasing THEN container_erase(c, f.x) ELSE c,
                          IF next = "done" THEN stk2
                          ELSE [stk2 EXCEPT ![Len(stk)] =
                                    Turned(@, next, ObserversIn(s, next))],
                          IF erasing
                          THEN Append(evs, ApplyEvent(f.id, Len(stk), f.x, TRUE))
                          ELSE evs)

\* The same as a step.
Resume(c, stk, evs, s) ==
    LET r == Resumed(c, stk, evs, s)
    IN  /\ value_' = r.value
        /\ stack' = r.stack
        /\ events' = r.events

\* Faulty variant of deliverable: an observer unsubscribed during the dispatch
\* is invoked all the same.
deliverable_stale(stage, o) == TRUE

\* subject::notify visits the observers subscribed when the dispatch began and
\* invokes those that are still subscribed
deliverable(stage, o) == \E i \in DOMAIN StreamObservers(stage) : StreamObservers(stage)[i] = o

Top == stack[Len(stack)]

\* What the observer at the head of todo is handed.
Payload == IF Top.stage = "change" THEN Top.x ELSE NoElem

\* The stack once the observer at the head of todo has been invoked.
Visited == [stack EXCEPT ![Len(stack)] = [@ EXCEPT !.todo = Tail(@),
                                                   !.invoked = Append(@, Head(Top.todo))]]

Invoke(elem, alive) ==
    CallEvent(Top.id, Len(stack), Top.stage, Head(Top.todo), elem,
              /\ alive
              /\ \E i \in DOMAIN StreamObservers(Top.stage) :
                     StreamObservers(Top.stage)[i] = Head(Top.todo))

\* subject::notify is about to invoke the observer at the head of todo.
Invoking ==
    /\ ~undefined
    /\ stack # <<>>
    /\ Top.todo # <<>>
    /\ deliverable(Top.stage, Head(Top.todo))

\* ... and what it hands over is valid.
Notifying == Invoking /\ (Top.stage = "change" => Top.ref # "dangling")

\* subscribe_changes and subscribe called from outside any observer, the handle
\* kept; last and prev are not used here and stay as they are.
TopSubscribes(api) ==
    LET o == Len(subs) + 1
        s == IF api = "change" THEN subscribe_changes_impl(o) ELSE subscribe(o, api)
    IN  /\ ~undefined
        /\ stack = <<>>
        /\ Len(subs) < MaxObs
        /\ subs' = Append(subs, [api |-> api, handle |-> "held"])
        /\ change_observers_' = s.change
        /\ void_observers_' = s.void
        /\ value_observers_' = s.value
        /\ UNCHANGED <<value_, updater_, extract_build, last, prev, nested>>

\* A call made from outside any observer.
TopInsert(x) ==
    LET e == insert_impl_begin(<<>>, 1, x, FALSE)
    IN  /\ ~undefined
        /\ stack = <<>>
        /\ Resume(e.value, e.stack, e.events, Now)
        /\ UNCHANGED <<updater_, change_observers_, void_observers_, value_observers_,
                       subs, extract_build, last, prev, undefined>>

TopRemove(x) ==
    LET e == remove_impl_begin(<<>>, 1, x)
    IN  /\ ~undefined
        /\ stack = <<>>
        /\ Resume(e.value, e.stack, e.events, Now)
        /\ UNCHANGED <<updater_, change_observers_, void_observers_, value_observers_,
                       subs, extract_build, last, prev, undefined>>

\* The observer is invoked and returns.
ObserverReturns ==
    /\ Notifying
    /\ Resume(value_, Visited, Append(events, Invoke(Payload, TRUE)), Now)
    /\ UNCHANGED <<updater_, change_observers_, void_observers_, value_observers_,
                   subs, extract_build, last, prev, undefined>>

\* The observer is invoked and calls insert(x) on the collection.
ObserverInserts(x, rehash) ==
    /\ Notifying
    /\ NumCalls < MaxCalls
    /\ LET e == insert_impl_begin(Visited, NumCalls + 1, x, rehash)
       IN  Resume(e.value, e.stack, Append(events, Invoke(Payload, TRUE)) \o e.events,
                  Now)
    /\ UNCHANGED <<updater_, change_observers_, void_observers_, value_observers_,
                   subs, extract_build, last, prev, undefined>>

\* The observer is invoked and calls remove(x) on the collection.
ObserverRemoves(x) ==
    /\ Notifying
    /\ NumCalls < MaxCalls
    /\ LET e == remove_impl_begin(Visited, NumCalls + 1, x)
       IN  Resume(e.value, e.stack, Append(events, Invoke(Payload, TRUE)) \o e.events,
                  Now)
    /\ UNCHANGED <<updater_, change_observers_, void_observers_, value_observers_,
                   subs, extract_build, last, prev, undefined>>

\* The observer is invoked and destroys the attached handle of observer o,
\* itself or another.
ObserverUnsubscribes(o) ==
    /\ Notifying
    /\ o \in DOMAIN subs
    /\ subs[o].handle = "held"
    /\ Resume(value_, Visited, Append(events, Invoke(Payload, TRUE)), unsubscribe(o))
    /\ subs' = [subs EXCEPT ![o] = Destroyed]
    /\ change_observers_' = unsubscribe(o).change
    /\ void_observers_' = unsubscribe(o).void
    /\ value_observers_' = unsubscribe(o).value
    /\ UNCHANGED <<updater_, extract_build, last, prev, undefined>>

\* The observer is invoked and subscribes a new observer.
ObserverSubscribes(api) ==
    LET o == Len(subs) + 1
        s == IF api = "change" THEN subscribe_changes_impl(o) ELSE subscribe(o, api)
    IN  /\ Notifying
        /\ Len(subs) < MaxObs
        /\ Resume(value_, Visited, Append(events, Invoke(Payload, TRUE)), s)
        /\ subs' = Append(subs, [api |-> api, handle |-> "held"])
        /\ change_observers_' = s.change
        /\ void_observers_' = s.void
        /\ value_observers_' = s.value
        /\ UNCHANGED <<updater_, extract_build, last, prev, undefined>>

\* subject::notify passes over an observer that was unsubscribed since the
\* dispatch began.
SkipUnsubscribed ==
    /\ ~undefined
    /\ stack # <<>>
    /\ Top.todo # <<>>
    /\ ~deliverable(Top.stage, Head(Top.todo))
    /\ Resume(value_, [stack EXCEPT ![Len(stack)] = [@ EXCEPT !.todo = Tail(@)]],
              events, Now)
    /\ UNCHANGED <<updater_, change_observers_, void_observers_, value_observers_,
                   subs, extract_build, last, prev, undefined>>

\* value_.erase(found_it) through an iterator that a call made by an observer
\* invalidated: undefined behaviour. The container may be left in any state,
\* and the program is followed no further.
EraseInvalid ==
    /\ ~undefined
    /\ stack # <<>>
    /\ Top.todo = <<>>
    /\ Top.stage = "change"
    /\ Top.pos = "invalid"
    /\ value_' \in Containers
    /\ events' = Append(events, ApplyEvent(Top.id, Len(stack), Top.x, FALSE))
    /\ undefined' = TRUE
    /\ UNCHANGED <<updater_, change_observers_, void_observers_, value_observers_,
                   subs, extract_build, last, prev, stack>>

\* An element-level observer is handed a reference to an element that a call
\* made by an observer destroyed: reading it is undefined behaviour. The
\* observer may read any element, and the program is followed no further.
DanglingRead ==
    /\ Invoking
    /\ Top.stage = "change"
    /\ Top.ref = "dangling"
    /\ \E elem \in Elems : events' = Append(events, Invoke(elem, FALSE))
    /\ stack' = Visited
    /\ undefined' = TRUE
    /\ UNCHANGED <<value_, updater_, change_observers_, void_observers_,
                   value_observers_, subs, extract_build, last, prev>>

\* insert_impl / remove_impl return true after the last notify, and the call
\* that was notifying goes on; events is kept until the outermost call returns.
Return ==
    /\ ~undefined
    /\ stack # <<>>
    /\ Top.todo = <<>>
    /\ Top.stage = "change" => Top.pos = "none"
    /\ Resume(value_, SubSeq(stack, 1, Len(stack) - 1),
              IF Len(stack) = 1 THEN <<>> ELSE events, Now)
    /\ UNCHANGED <<updater_, change_observers_, void_observers_, value_observers_,
                   subs, extract_build, last, prev, undefined>>

Apis == {"change", "void", "value"}

\* Observers that change the subscriptions while they are notified; insert
\* and remove are called from outside the observers only.
NextDispatch ==
    \/ \E api \in Apis : TopSubscribes(api)
    \/ \E x \in Elems : TopInsert(x)
    \/ \E x \in Elems : TopRemove(x)
    \/ ObserverReturns
    \/ \E o \in 1..MaxObs : ObserverUnsubscribes(o)
    \/ \E api \in Apis : ObserverSubscribes(api)
    \/ SkipUnsubscribed
    \/ Return

\* Observers that call insert and remove while they are notified; the
\* subscriptions are made from outside the observers.
NextReentrant ==
    \/ \E api \in Apis : TopSubscribes(api)
    \/ \E x \in Elems : TopInsert(x)
    \/ \E x \in Elems : TopRemove(x)
    \/ ObserverReturns
    \/ \E x \in Elems, rehash \in BOOLEAN : ObserverInserts(x, rehash)
    \/ \E x \in Elems : ObserverRemoves(x)
    \/ EraseInvalid
    \/ DanglingRead
    \/ Return

\* A collection built without an updater.
InitReentrant == Init /\ ~updater_

SpecDispatch == InitReentrant /\ [][NextDispatch]_vars

SpecReentrant == InitReentrant /\ [][NextReentrant]_vars

-----------------------------------------------------------------------------
\* C15: when observers are unsubscribed during a dispatch, no observer is invoked
\* twice in that dispatch, no observer is invoked once it is unsubscribed, an
\* observer subscribed during the dispatch is not invoked in it, and when the
\* dispatch is over every observer that was subscribed when it began and still
\* is has been invoked. (An observer is subscribed to one subject, so the
\* dispatches of a call invoke different observers.)
C15_DispatchUnderUnsubscription ==
    /\ \A k \in DOMAIN events : events[k].kind = "call" => events[k].ok
    /\ \A d \in DOMAIN stack :
         /\ \A i, j \in DOMAIN stack[d].invoked :
                stack[d].invoked[i] = stack[d].invoked[j] => i = j
         /\ Range(stack[d].invoked) \subseteq Range(stack[d].snapshot)
         /\ \A o \in Range(stack[d].snapshot) \ Range(stack[d].todo) :
                (\E stage \in Apis : o \in Range(StreamObservers(stage))) =>
                    o \in Range(stack[d].invoked)

\* A dispatch is over in which an observer was invoked and another one, there
\* when it began, was unsubscribed before its turn.
C15_Witness ==
    \E d \in DOMAIN stack :
        /\ stack[d].todo = <<>>
        /\ stack[d].invoked # <<>>
        /\ \E o \in Range(stack[d].snapshot) :
               o \notin Range(stack[d].invoked) /\ subs[o] = Destroyed
        /\ \E o \in Range(stack[d].invoked) : subs[o] # Destroyed

\* C19: when observers call insert or remove during a dispatch, every element
\* handed to an element-level observer is alive and equal to the x of the call
\* that notifies, every erase goes through a valid position, and no call erases
\* more than once.
C19_ReentrantCallsLeaveOuterCallIntact ==
    /\ \A k \in DOMAIN events : events[k].kind # "begin" => events[k].ok
    /\ \A b, k \in DOMAIN events :
           /\ events[b].kind = "begin"
           /\ events[k].kind = "call"
           /\ events[k].stream = "change"
           /\ events[k].id = events[b].id
           => events[k].elem = events[b].elem
    /\ \A i, j \in DOMAIN events :
           /\ events[i].kind = "apply"
           /\ events[j].kind = "apply"
           /\ events[i].id = events[j].id
           => i = j

ElementLevel(k) == events[k].kind = "call" /\ events[k].stream = "change"

WholeValue(k) == events[k].kind = "call" /\ events[k].stream # "change"

\* Where in events the change of call id was applied to the container; past the
\* end while it is still to be applied.
AppliedAt(id) ==
    IF \E k \in DOMAIN events : events[k].kind = "apply" /\ events[k].id = id
    THEN CHOOSE k \in DOMAIN events : events[k].kind = "apply" /\ events[k].id = id
    ELSE Len(events) + 1

\* C20: every element-level observer receives the events in the order in which
\* the changes were applied, and a whole-value notification for a change comes
\* after the element-level notifications of that change and before those of any
\* change applied later, also when observers call insert or remove.
C20_DeliveredInApplicationOrder ==
    /\ \A i, j \in DOMAIN events :
           /\ i < j
           /\ ElementLevel(i)
           /\ ElementLevel(j)
           /\ events[i].obs = events[j].obs
           => AppliedAt(events[i].id) <= AppliedAt(events[j].id)
    /\ \A w, e \in DOMAIN events :
           WholeValue(w) /\ ElementLevel(e) =>
               /\ events[e].id = events[w].id => e < w
               /\ AppliedAt(events[e].id) > AppliedAt(events[w].id) => w < e

\* The call that was notifying at the given depth when event k happened.
Enclosing(k, depth) ==
    events[CHOOSE b \in 1..k :
               /\ events[b].depth = depth
               /\ \A c \in (b + 1)..k : events[c].depth # depth].id

\* C20 (amended): a whole-value notification for a change comes after the
\* element-level notifications of that same change, and a call made from inside
\* a notification begins right after that notification and does all its
\* notifying before the call that was notifying goes on.
C20_NestedCallsNotifyFirst ==
    /\ \A w \in DOMAIN events :
           WholeValue(w) =>
               \A e \in (w + 1)..Len(events) :
                   ~(ElementLevel(e) /\ events[e].id = events[w].id)
    /\ \A k \in 1..(Len(events) - 1) :
           IF events[k + 1].kind = "begin"
           THEN events[k].kind = "call" /\ events[k + 1].depth = events[k].depth + 1
           ELSE IF events[k + 1].depth = events[k].depth
           THEN events[k + 1].id = events[k].id
           ELSE /\ events[k + 1].depth < events[k].depth
                /\ events[k + 1].id = Enclosing(k, events[k + 1].depth)

\* A call made by an observer has notified, and the call that was notifying
\* went on to notify another observer.
C20_Witness ==
    \E i, j, k \in DOMAIN events :
        /\ i < j
        /\ j < k
        /\ events[i].kind = "call"
        /\ events[j].kind = "call"
        /\ events[k].kind = "call"
        /\ events[i].id = events[k].id
        /\ events[j].id # events[i].id

=============================================================================
